---- MODULE Spec2Model ----
(***************************************************************************)
(* expo-text-extractor: the JavaScript surface (src/src/index.ts), the     *)
(* Android module (Kotlin, src/src/types.unified.ts lines 315-470) and the *)
(* iOS module (Swift, src/unnamed/part_001).                               *)
(*                                                                         *)
(* Conventions.                                                            *)
(*   - JavaScript / Kotlin / Swift strings are TLA+ strings.               *)
(*   - A nullable value is a sequence of length 0 (null) or 1.             *)
(*   - Confidences are in hundredths (0.5f is 50).                         *)
(*   - Vision's normalized coordinates are in units of 1/One, and image    *)
(*     sizes are multiples of One, so every product below is exact.        *)
(*   - A rejection's code: the Kotlin CodedException(code, message, cause) *)
(*     carries the code it is given and CodedException(message, cause)     *)
(*     carries the code the framework infers from the class name; a Swift  *)
(*     Exception(name:, description:) is taken to carry its name as code,  *)
(*     and any other Swift Error is wrapped by the framework.              *)
(***************************************************************************)
EXTENDS Integers, Sequences, FiniteSets, TLC

VARIABLES platform, isSupported, errorCodes, calls, conversion, app

vars == <<platform, isSupported, errorCodes, calls, conversion, app>>

\* ---------------------------------------------------------------- bounds
MaxCalls == 1
MaxObs == 2
MaxConcurrent == 2
MaxEntities == 3
MaxLines == 2
MaxBlocks == 2

Calls == 1..MaxCalls

\* ------------------------------------------------------------- constants
\* 1.0 of the normalized coordinate space, in the model's fixed-point unit.
One == 4
\* 0.5f, in hundredths.
ConfidenceFallback == 50

None == <<>>
Some(v) == <<v>>

Platforms == {"android", "ios"}

FileOps == {"extractTextFromImage", "extractTextFromImageWithDetails"}
DataOps == {"extractTextFromImageData", "extractTextFromImageDataWithDetails"}
DetailOps == {"extractTextFromImageWithDetails", "extractTextFromImageDataWithDetails"}
Ops == FileOps \cup DataOps

\* The closed error taxonomy.
OCRErrorCode ==
    {"INVALID_IMAGE", "INVALID_BASE64", "PROCESSING_FAILED", "TIMEOUT",
     "UNSUPPORTED_FORMAT", "NETWORK_ERROR", "MODEL_NOT_AVAILABLE",
     "PERMISSION_DENIED", "UNKNOWN_ERROR"}

\* The OCRErrorCode of types.ts, the one index.ts re-exports.
TypesOCRErrorCode ==
    {"INVALID_IMAGE", "INVALID_BASE64", "PROCESSING_FAILED", "TIMEOUT",
     "UNSUPPORTED_FORMAT", "NETWORK_ERROR", "UNKNOWN_ERROR"}

\* export * from './types';
ExportedOCRErrorCode == TypesOCRErrorCode

\* --------------------------------------------------------------- strings
StartsWith(s, p) == Len(s) >= Len(p) /\ SubSeq(s, 1, Len(p)) = p

\* Index of the first occurrence of p in s, 0 when there is none.
IndexOf(s, p) ==
    LET hits == {i \in 1..(Len(s) - Len(p) + 1) : SubSeq(s, i, i + Len(p) - 1) = p}
    IN  IF hits = {} THEN 0 ELSE CHOOSE i \in hits : \A j \in hits : i <= j

\* String.prototype.replace with a string pattern: the first occurrence only.
Replace(s, p, r) ==
    LET i == IndexOf(s, p)
    IN  IF i = 0 THEN s
        ELSE SubSeq(s, 1, i - 1) \o r \o SubSeq(s, i + Len(p), Len(s))

\* A normalization that removes the first slash of the uri.
ProcessedUriDropsSlash(uri) == Replace(uri, "/", "")

\* const processedUri = uri.replace('file://', '');
ProcessedUri(uri) == Replace(uri, "file://", "")

\* ----------------------------------------------------------- environment
Image(w, h) == [kind |-> "image", width |-> w, height |-> h]
Garbage == [kind |-> "garbage", width |-> 0, height |-> 0]
Missing == [kind |-> "missing", width |-> 0, height |-> 0]
\* Bytes that describe an image of zero width: no CGImage and no Bitmap can
\* be made of them, the decoders answer nil / null as for any other bytes
\* that are no image.
ZeroSize == [kind |-> "zero", width |-> 0, height |-> 4]

\* What the device's file system holds at a path.
FileContents(path) ==
    CASE path = "/a.png" -> Image(200, 100)
      [] path = "/c.png" -> Image(8, 4)
      [] path = "/d/file://a.png" -> Image(8, 4)
      [] path = "/b.txt" -> Garbage
      [] path = "/z.png" -> ZeroSize
      [] OTHER -> Missing

\* What Android's content resolver serves for a content:// URI.
ContentContents(uri) ==
    CASE uri = "content://m/1" -> Image(8, 4)
      [] OTHER -> Missing

\* The URIs a caller passes to the file based operations.
Uris ==
    {"file:///a.png", "/a.png", "file:///c.png", "/d/file://a.png",
     "file:///b.txt", "/z.png", "/missing.png", "content://m/1"}

\* A base64 argument: its well-formedness and the bytes its alphabet
\* characters encode.  "clean": canonical base64; "stray": characters outside
\* the alphabet in an otherwise decodable text; "padding": wrong padding.
Payload(f, b) == [form |-> f, bytes |-> b]
Payloads ==
    {Payload("clean", Image(200, 100)), Payload("clean", Garbage),
     Payload("stray", Image(8, 4)), Payload("stray", Garbage),
     Payload("clean", ZeroSize), Payload("padding", Garbage)}

Inputs(op) == IF op \in FileOps THEN Uris ELSE Payloads

\* ------------------------------------------------------ vendor results
SeqsUpTo(S, n) == UNION {[1..k -> S] : k \in 0..n}

\* ML Kit: android.graphics.Rect and Text.TextBlock.
Rect(l, t, r, b) == [left |-> l, top |-> t, right |-> r, bottom |-> b]
RectWidth(r) == r.right - r.left
RectHeight(r) == r.bottom - r.top
TextBlock(t, c, bb) == [text |-> t, confidence |-> c, boundingBox |-> bb]

TextBlocks ==
    {TextBlock("a", Some(90), Some(Rect(1, 1, 5, 3))),
     TextBlock("b", None, Some(Rect(0, 0, 8, 4))),
     TextBlock("c", Some(95), None)}

\* Vision: VNRecognizedText, CGRect in normalized bottom-left space (units of
\* 1/One) and VNRecognizedTextObservation.
Candidate(s, c) == [string |-> s, confidence |-> c]
CGRect(x, y, w, h) == [x |-> x, y |-> y, width |-> w, height |-> h]
Observation(cs, bb) == [candidates |-> cs, boundingBox |-> bb]

Observations ==
    {Observation(<<Candidate("a", 100)>>, CGRect(1, 1, 2, 2)),
     Observation(<<>>, CGRect(0, 0, 1, 1)),
     Observation(<<Candidate("b", 50), Candidate("x", 30)>>, CGRect(0, 3, 4, 1))}

\* observation.topCandidates(1)
TopCandidates(o, n) == SubSeq(o.candidates, 1, IF Len(o.candidates) < n THEN Len(o.candidates) ELSE n)

\* What the vendor can answer to one recognition request.
NoVendor == [outcome |-> "none", regions |-> <<>>]
VendorSuccess(rs) == [outcome |-> "success", regions |-> rs]
VendorFailure == [outcome |-> "failure", regions |-> <<>>]
VendorThrows == [outcome |-> "throws", regions |-> <<>>]

\* -------------------------------------------------------- result mapping
\* A map that lists the blocks last to first.
AndroidTextsReversed(blocks) ==
    [i \in 1..Len(blocks) |-> blocks[Len(blocks) + 1 - i].text]

\* visionText.textBlocks.map { it.text }
AndroidTexts(blocks) == [i \in 1..Len(blocks) |-> blocks[i].text]

\* "boundingBox" to mapOf("x" to textBlock.boundingBox?.left, ...)
AndroidBoundingBox(bb) ==
    [x |-> IF bb = None THEN None ELSE Some(bb[1].left),
     y |-> IF bb = None THEN None ELSE Some(bb[1].top),
     width |-> IF bb = None THEN None ELSE Some(RectWidth(bb[1])),
     height |-> IF bb = None THEN None ELSE Some(RectHeight(bb[1]))]

\* An entry whose missing confidence becomes 0 instead of the fallback.
AndroidEntryZeroFallback(tb) ==
    [text |-> tb.text,
     confidence |-> IF tb.confidence = None THEN 0 ELSE tb.confidence[1],
     boundingBox |-> AndroidBoundingBox(tb.boundingBox)]

\* mapOf("text" to ..., "confidence" to (textBlock.confidence ?: 0.5f), "boundingBox" to ...)
AndroidEntry(tb) ==
    [text |-> tb.text,
     confidence |-> IF tb.confidence = None THEN ConfidenceFallback ELSE tb.confidence[1],
     boundingBox |-> AndroidBoundingBox(tb.boundingBox)]

\* extractTextFromImageWithDetails: visionText.textBlocks.map { ... }
AndroidDetailsOfFile(blocks) == [i \in 1..Len(blocks) |-> AndroidEntry(blocks[i])]

\* extractTextFromImageDataWithDetails: visionText.textBlocks.map { ... }
AndroidDetailsOfData(blocks) == [i \in 1..Len(blocks) |-> AndroidEntry(blocks[i])]

HasCandidate(o) == TopCandidates(o, 1) # <<>>

\* A map that emits an empty string for an observation without a candidate.
IOSTextsKeepsAll(obs) ==
    [i \in 1..Len(obs) |->
        IF HasCandidate(obs[i]) THEN TopCandidates(obs[i], 1)[1].string ELSE ""]

\* observations.compactMap { observation in observation.topCandidates(1).first?.string }
IOSTexts(obs) ==
    LET kept == SelectSeq(obs, HasCandidate)
    IN  [i \in 1..Len(kept) |-> TopCandidates(kept[i], 1)[1].string]

\* A conversion whose Y flip leaves out the box's own height.
IOSPixelBoxNoHeight(bb, img) ==
    [x |-> Some((bb.x * img.width) \div One),
     y |-> Some(((One - bb.y) * img.height) \div One),
     width |-> Some((bb.width * img.width) \div One),
     height |-> Some((bb.height * img.height) \div One)]

\* extractTextFromImageWithDetails: normalized bottom-left to pixel top-left.
IOSPixelBoxOfFile(bb, img) ==
    [x |-> Some((bb.x * img.width) \div One),
     y |-> Some(((One - bb.y - bb.height) * img.height) \div One),
     width |-> Some((bb.width * img.width) \div One),
     height |-> Some((bb.height * img.height) \div One)]

\* A conversion that keeps Vision's bottom-left origin.
IOSPixelBoxNoFlip(bb, img) ==
    [x |-> Some((bb.x * img.width) \div One),
     y |-> Some((bb.y * img.height) \div One),
     width |-> Some((bb.width * img.width) \div One),
     height |-> Some((bb.height * img.height) \div One)]

\* extractTextFromImageDataWithDetails: the same conversion, written again.
IOSPixelBoxOfData(bb, img) ==
    [x |-> Some((bb.x * img.width) \div One),
     y |-> Some(((One - bb.y - bb.height) * img.height) \div One),
     width |-> Some((bb.width * img.width) \div One),
     height |-> Some((bb.height * img.height) \div One)]

IOSEntry(o, box) ==
    [text |-> TopCandidates(o, 1)[1].string,
     confidence |-> TopCandidates(o, 1)[1].confidence,
     boundingBox |-> box]

\* extractTextFromImageWithDetails: observations.compactMap { ... }
IOSDetailsOfFile(obs, img) ==
    LET kept == SelectSeq(obs, HasCandidate)
    IN  [i \in 1..Len(kept) |-> IOSEntry(kept[i], IOSPixelBoxOfFile(kept[i].boundingBox, img))]

\* A map that emits an entry with an empty text for an observation that has
\* no candidate.
IOSDetailsOfDataKeepsAll(obs, img) ==
    [i \in 1..Len(obs) |->
        IF HasCandidate(obs[i])
        THEN IOSEntry(obs[i], IOSPixelBoxOfData(obs[i].boundingBox, img))
        ELSE [text |-> "", confidence |-> 0,
              boundingBox |-> IOSPixelBoxOfData(obs[i].boundingBox, img)]]

\* extractTextFromImageDataWithDetails: observations.compactMap { ... }
IOSDetailsOfData(obs, img) ==
    LET kept == SelectSeq(obs, HasCandidate)
    IN  [i \in 1..Len(kept) |-> IOSEntry(kept[i], IOSPixelBoxOfData(kept[i].boundingBox, img))]

\* ------------------------------------------------------------ promises
Resolve(v) == [kind |-> "resolve", value |-> v, code |-> ""]
Reject(c) == [kind |-> "reject", value |-> <<>>, code |-> c]

\* CodedException(code, message, cause): the code is the one given.
CodedException3(code) == code
\* CodedException(message, cause): no code is given, the framework infers
\* one from the class name.
CodedException2(message) == "ERR_CODED"
\* promise.reject(error) with a Swift Exception(name:, description:).
SwiftException(name) == name
\* promise.reject(error) with any other Swift Error (Foundation, Vision).
SwiftForeignError == "ERR_UNEXPECTED"

\* ---------------------------------------------------------------- state
NoPayload == Payload("none", Missing)
Arg(u, p) == [uri |-> u, payload |-> p]

\* buffer: the image the binding decoded for the call.  "none": none was
\* decoded; "held": decoded and not released; "released".
\* public: the settlement of the promise the exported async function
\* returned, None while it is pending.
\* pc: "idle" (not invoked), "bridged" (the bridge call is issued, the native
\* body has not run), "processing" (Android: recognizer.process is pending),
\* "done" (the native side has nothing left to run).
NewCall ==
    [pc |-> "idle", op |-> "", input |-> Arg("", NoPayload),
     bridge |-> Arg("", NoPayload), image |-> Missing, vendor |-> NoVendor,
     settlements |-> <<>>, bridgeCalls |-> 0, vendorCalls |-> 0,
     buffer |-> "none", public |-> None]

\* A use of the type unification layer: which function, its argument, its
\* option and, once applied, its value.
NoInput == [entities |-> <<>>, textBlocks |-> <<>>]
NoOutput == [entities |-> <<>>, textBlocks |-> <<>>, platform |-> ""]
NoConversion == [fn |-> "none", input |-> NoInput, option |-> None, output |-> NoOutput, done |-> FALSE]

\* The example app's component state (useState) and where processImage
\* stands.  path "" is an absent (or empty) path, base64 NoPayload an absent
\* base64; call is the extract call processImage awaits (0: none);
\* extractions counts the extract calls of the current processImage;
\* alerts are the titles of the alerts shown.
\* pc: "ready" (no processImage yet), "awaiting" (at its await),
\* "finished" (the last processImage has returned).
NewApp ==
    [pc |-> "ready", attempts |-> 0, path |-> "", base64 |-> NoPayload, call |-> 0,
     extractions |-> 0, imageUri |-> "", isLoading |-> FALSE, result |-> <<>>,
     processingMethod |-> "file", alerts |-> <<>>]

\* The module as loaded: Constants("isSupported" to true) /
\* Constants(["isSupported": true]), read once by index.ts, and the
\* OCRErrorCode object that index.ts exports.
Init ==
    /\ platform \in Platforms
    /\ isSupported = TRUE
    /\ errorCodes = ExportedOCRErrorCode
    /\ calls = [c \in Calls |-> NewCall]
    /\ conversion = NoConversion
    /\ app = NewApp

\* The promise the caller holds: the first settlement decides it.
Phase(c) ==
    IF calls[c].settlements # <<>> THEN
        (IF calls[c].settlements[1].kind = "resolve" THEN "resolved" ELSE "rejected")
    ELSE IF calls[c].pc = "idle" THEN "idle"
    ELSE "in-flight"

\* promise.resolve / promise.reject on the bridge's promise.  The exported
\* function is `async` and returns the bridge's promise, so its own promise
\* adopts the first settlement; a later one has no effect on either.
Settle(call, s) ==
    [call EXCEPT !.settlements = Append(@, s),
                 !.public = IF @ = None THEN Some(s) ELSE @]

\* ----------------------------------------------------- public surface
\* The call as an exported function leaves it: the argument it was given
\* and the one it gave to the bridge.
Bridged(call, op, in) ==
    [call EXCEPT !.pc = "bridged",
                 !.op = op,
                 !.input = IF op \in FileOps THEN Arg(in, NoPayload) ELSE Arg("", in),
                 !.bridge = IF op \in FileOps THEN Arg(ProcessedUri(in), NoPayload)
                            ELSE Arg("", in),
                 !.bridgeCalls = @ + 1]

\* An exported function that clears the capability flag when it is called.
InvokeClearsIsSupported(c, op, in) ==
    /\ calls[c].pc = "idle"
    /\ calls' = [calls EXCEPT ![c] =
            [@ EXCEPT !.pc = "bridged",
                      !.op = op,
                      !.input = IF op \in FileOps THEN Arg(in, NoPayload) ELSE Arg("", in),
                      !.bridge = IF op \in FileOps THEN Arg(ProcessedUri(in), NoPayload)
                                 ELSE Arg("", in),
                      !.bridgeCalls = @ + 1]]
    /\ isSupported' = FALSE
    /\ UNCHANGED <<platform, errorCodes, conversion, app>>

\* Exported functions that tidy the base64 text before they forward it.
InvokeCleansBase64(c, op, in) ==
    /\ calls[c].pc = "idle"
    /\ calls' = [calls EXCEPT ![c] =
            [@ EXCEPT !.pc = "bridged",
                      !.op = op,
                      !.input = IF op \in FileOps THEN Arg(in, NoPayload) ELSE Arg("", in),
                      !.bridge = IF op \in FileOps THEN Arg(ProcessedUri(in), NoPayload)
                                 ELSE Arg("", [in EXCEPT !.form = "clean"]),
                      !.bridgeCalls = @ + 1]]
    /\ UNCHANGED <<platform, isSupported, errorCodes, conversion, app>>

\* index.ts: the four exported functions.
Invoke(c, op, in) ==
    /\ calls[c].pc = "idle"
    /\ calls' = [calls EXCEPT ![c] = Bridged(@, op, in)]
    /\ UNCHANGED <<platform, isSupported, errorCodes, conversion, app>>

\* ------------------------------------------------------- Android module
Opened(img) == [threw |-> FALSE, image |-> img]
Threw == [threw |-> TRUE, image |-> Missing]

\* A resolution that skips File.exists and hands every path to InputImage.
AndroidOpenNoExistenceCheck(uriString, hasContext) ==
    IF ~hasContext THEN Threw
    ELSE IF StartsWith(uriString, "content://") THEN
        (IF ContentContents(uriString).kind = "image"
         THEN Opened(ContentContents(uriString)) ELSE Threw)
    ELSE Opened(FileContents(uriString))

\* extractTextFromImage / extractTextFromImageWithDetails, up to InputImage:
\* appContext.reactContext!!, the content:// test, File.exists and
\* InputImage.fromFilePath (which throws when the image cannot be read).
AndroidOpen(uriString, hasContext) ==
    IF ~hasContext THEN Threw
    ELSE IF StartsWith(uriString, "content://") THEN
        (IF ContentContents(uriString).kind = "image"
         THEN Opened(ContentContents(uriString)) ELSE Threw)
    ELSE IF FileContents(uriString).kind = "missing" THEN Threw
    ELSE IF FileContents(uriString).kind = "image"
         THEN Opened(FileContents(uriString)) ELSE Threw

\* The two file based AsyncFunctions, up to recognizer.process.
AndroidFileBody(c, hasContext) ==
    /\ platform = "android"
    /\ calls[c].pc = "bridged"
    /\ calls[c].op \in FileOps
    /\ LET r == AndroidOpen(calls[c].bridge.uri, hasContext)
       IN  calls' = [calls EXCEPT ![c] =
               IF r.threw
               THEN [Settle(@, Reject(CodedException3("UNKNOWN_ERROR"))) EXCEPT !.pc = "done"]
               ELSE [@ EXCEPT !.pc = "processing", !.image = r.image,
                              !.vendorCalls = @ + 1]]
    /\ UNCHANGED <<platform, isSupported, errorCodes, conversion, app>>

\* Base64.decode(base64Data, Base64.DEFAULT): characters outside the alphabet
\* are skipped, wrong padding throws IllegalArgumentException.
AndroidBase64Decode(payload) ==
    IF payload.form = "padding" THEN Threw ELSE Opened(payload.bytes)

\* Handlers that return on a null bitmap without rejecting.
AndroidDataBodyDropsNullBitmap(c) ==
    /\ platform = "android"
    /\ calls[c].pc = "bridged"
    /\ calls[c].op \in DataOps
    /\ LET r == AndroidBase64Decode(calls[c].bridge.payload)
       IN  calls' = [calls EXCEPT ![c] =
               IF r.threw
               THEN [Settle(@, Reject(CodedException3("UNKNOWN_ERROR"))) EXCEPT !.pc = "done"]
               ELSE IF r.image.kind # "image"
               THEN [@ EXCEPT !.pc = "done"]
               ELSE [@ EXCEPT !.pc = "processing", !.image = r.image,
                              !.buffer = "held",
                              !.vendorCalls = @ + 1]]
    /\ UNCHANGED <<platform, isSupported, errorCodes, conversion, app>>

\* The two base64 based AsyncFunctions, up to recognizer.process.
AndroidDataBody(c) ==
    /\ platform = "android"
    /\ calls[c].pc = "bridged"
    /\ calls[c].op \in DataOps
    /\ LET r == AndroidBase64Decode(calls[c].bridge.payload)
       IN  calls' = [calls EXCEPT ![c] =
               IF r.threw
               THEN [Settle(@, Reject(CodedException3("UNKNOWN_ERROR"))) EXCEPT !.pc = "done"]
               ELSE IF r.image.kind # "image"   \* bitmap == null
               THEN [Settle(@, Reject(CodedException3("INVALID_IMAGE"))) EXCEPT !.pc = "done"]
               ELSE [@ EXCEPT !.pc = "processing", !.image = r.image,
                              !.buffer = "held",   \* the Bitmap, never recycled
                              !.vendorCalls = @ + 1]]
    /\ UNCHANGED <<platform, isSupported, errorCodes, conversion, app>>

\* What each AsyncFunction's success listener resolves with.
AndroidResult(op, blocks) ==
    CASE op = "extractTextFromImage" -> AndroidTexts(blocks)
      [] op = "extractTextFromImageData" -> AndroidTexts(blocks)
      [] op = "extractTextFromImageWithDetails" -> AndroidDetailsOfFile(blocks)
      [] op = "extractTextFromImageDataWithDetails" -> AndroidDetailsOfData(blocks)

\* One success listener shared by the calls: an answer of the recognizer
\* resolves every call that waits for one.
AndroidSuccessSharedListener(c, blocks) ==
    /\ platform = "android"
    /\ calls[c].pc = "processing"
    /\ calls' = [d \in DOMAIN calls |->
            IF calls[d].pc = "processing"
            THEN [Settle(calls[d], Resolve(AndroidResult(calls[d].op, blocks)))
                    EXCEPT !.pc = "done", !.vendor = VendorSuccess(blocks)]
            ELSE calls[d]]
    /\ UNCHANGED <<platform, isSupported, errorCodes, conversion, app>>

\* .addOnSuccessListener { visionText -> ... promise.resolve(...) }
AndroidSuccess(c, blocks) ==
    /\ platform = "android"
    /\ calls[c].pc = "processing"
    /\ calls' = [calls EXCEPT ![c] =
            [Settle(@, Resolve(AndroidResult(calls[c].op, blocks)))
                EXCEPT !.pc = "done", !.vendor = VendorSuccess(blocks)]]
    /\ UNCHANGED <<platform, isSupported, errorCodes, conversion, app>>

\* The code each AsyncFunction's failure listener rejects with.
AndroidFailureCode(op) ==
    IF op = "extractTextFromImage" THEN CodedException2("err")
    ELSE CodedException3("TEXT_RECOGNITION_ERROR")

\* A failure listener that asks the recognizer again (at most twice more).
AndroidFailureRetries(c) ==
    /\ platform = "android"
    /\ calls[c].pc = "processing"
    /\ calls[c].vendorCalls < 3
    /\ calls' = [calls EXCEPT ![c] = [@ EXCEPT !.vendorCalls = @ + 1]]
    /\ UNCHANGED <<platform, isSupported, errorCodes, conversion, app>>

\* A timer that ends a pending call without any answer of the vendor.
AndroidFailureTimesOut(c) ==
    /\ platform = "android"
    /\ calls[c].pc = "processing"
    /\ calls' = [calls EXCEPT ![c] =
            [Settle(@, Reject("TIMEOUT")) EXCEPT !.pc = "done"]]
    /\ UNCHANGED <<platform, isSupported, errorCodes, conversion, app>>

\* .addOnFailureListener { error -> promise.reject(...) }
AndroidFailure(c) ==
    /\ platform = "android"
    /\ calls[c].pc = "processing"
    /\ calls' = [calls EXCEPT ![c] =
            [Settle(@, Reject(AndroidFailureCode(calls[c].op)))
                EXCEPT !.pc = "done", !.vendor = VendorFailure]]
    /\ UNCHANGED <<platform, isSupported, errorCodes, conversion, app>>

\* ----------------------------------------------------------- iOS module
\* Data(contentsOf: url) and UIImage(data:)?.cgImage for the file based
\* AsyncFunctions; the code of the error thrown, "" when the image decodes.
IOSOpenError(op, url) ==
    IF FileContents(url).kind = "missing" THEN SwiftForeignError
    ELSE IF FileContents(url).kind # "image" THEN
        (IF op = "extractTextFromImage" THEN SwiftException("err")
         ELSE SwiftException("INVALID_IMAGE"))
    ELSE ""

\* A decoding whose guard lets through every payload but plain non-images.
IOSDecodeErrorOnlyGarbage(payload) ==
    IF payload.form # "clean" THEN SwiftException("INVALID_BASE64")
    ELSE IF payload.bytes.kind = "garbage" THEN SwiftException("INVALID_IMAGE")
    ELSE ""

\* Data(base64Encoded:) and UIImage(data:)?.cgImage for the base64 based
\* AsyncFunctions; Data(base64Encoded:) is nil for anything but clean base64.
IOSDecodeError(payload) ==
    IF payload.form # "clean" THEN SwiftException("INVALID_BASE64")
    ELSE IF payload.bytes.kind # "image" THEN SwiftException("INVALID_IMAGE")
    ELSE ""

\* What each AsyncFunction's completion handler resolves with.
IOSResult(op, obs, img) ==
    CASE op = "extractTextFromImage" -> IOSTexts(obs)
      [] op = "extractTextFromImageData" -> IOSTexts(obs)
      [] op = "extractTextFromImageWithDetails" -> IOSDetailsOfFile(obs, img)
      [] op = "extractTextFromImageDataWithDetails" -> IOSDetailsOfData(obs, img)

\* try requestHandler.perform([request]) inside do/catch.  perform is
\* synchronous: the completion handler runs inside it.  A request that fails
\* has its handler called with no results and an error, and perform throws.
IOSPerform(call, img, v) ==
    LET started == [call EXCEPT !.pc = "done", !.image = img, !.vendor = v,
                                !.buffer = "released",   \* ARC, at the end of the body
                                !.vendorCalls = @ + 1]
    IN  CASE v.outcome = "success" ->
               Settle(started, Resolve(IOSResult(call.op, v.regions, img)))
          [] v.outcome = "failure" ->
               Settle(Settle(started, Resolve(<<>>)), Reject(SwiftForeignError))
          [] v.outcome = "throws" ->
               Settle(started, Reject(SwiftForeignError))

\* One AsyncFunction body, from its first line to the end of its catch.
IOSBody(c, v) ==
    /\ platform = "ios"
    /\ calls[c].pc = "bridged"
    /\ LET call == calls[c]
           err == IF call.op \in FileOps THEN IOSOpenError(call.op, call.bridge.uri)
                  ELSE IOSDecodeError(call.bridge.payload)
           img == IF call.op \in FileOps THEN FileContents(call.bridge.uri)
                  ELSE call.bridge.payload.bytes
       IN  calls' = [calls EXCEPT ![c] =
               IF err # ""
               THEN [Settle(@, Reject(err)) EXCEPT !.pc = "done"]
               ELSE IOSPerform(@, img, v)]
    /\ UNCHANGED <<platform, isSupported, errorCodes, conversion, app>>

\* ------------------------------------------------------------------ spec
AndroidVendorResults == SeqsUpTo(TextBlocks, MaxObs)
IOSVendorOutcomes ==
    {VendorSuccess(obs) : obs \in SeqsUpTo(Observations, MaxObs)}
        \cup {VendorFailure, VendorThrows}

Next ==
    \/ \E c \in Calls, op \in Ops : \E in \in Inputs(op) : Invoke(c, op, in)
    \/ \E c \in Calls, hasContext \in BOOLEAN : AndroidFileBody(c, hasContext)
    \/ \E c \in Calls : AndroidDataBody(c)
    \/ \E c \in Calls, blocks \in AndroidVendorResults : AndroidSuccess(c, blocks)
    \/ \E c \in Calls : AndroidFailure(c)
    \/ \E c \in Calls, v \in IOSVendorOutcomes : IOSBody(c, v)

Spec == Init /\ [][Next]_vars

\* ---------------------------------------------------- concurrent calls
\* Several calls of the exported functions in flight at once: each
\* AsyncFunction invocation has its own promise, its own image and its own
\* recognizer (TextRecognition.getClient / VNRecognizeTextRequest per call).
ConcCalls == 1..MaxConcurrent

ConcUris == {"file:///c.png", "file:///b.txt", "/missing.png"}
ConcPayloads ==
    {Payload("clean", Image(200, 100)), Payload("stray", Image(8, 4)),
     Payload("padding", Garbage)}
ConcInputs(op) == IF op \in FileOps THEN ConcUris ELSE ConcPayloads

ConcAndroidVendorResults == {<<>>} \cup {<<b>> : b \in TextBlocks}
ConcIOSVendorOutcomes ==
    {VendorSuccess(<<>>)} \cup {VendorSuccess(<<o>>) : o \in Observations}
        \cup {VendorFailure, VendorThrows}

InitConc ==
    /\ platform \in Platforms
    /\ isSupported = TRUE
    /\ errorCodes = ExportedOCRErrorCode
    /\ calls = [c \in ConcCalls |-> NewCall]
    /\ conversion = NoConversion
    /\ app = NewApp

NextConc ==
    \/ \E c \in ConcCalls, op \in Ops : \E in \in ConcInputs(op) : Invoke(c, op, in)
    \/ \E c \in ConcCalls, hasContext \in BOOLEAN : AndroidFileBody(c, hasContext)
    \/ \E c \in ConcCalls : AndroidDataBody(c)
    \/ \E c \in ConcCalls, blocks \in ConcAndroidVendorResults : AndroidSuccess(c, blocks)
    \/ \E c \in ConcCalls : AndroidFailure(c)
    \/ \E c \in ConcCalls, v \in ConcIOSVendorOutcomes : IOSBody(c, v)

SpecConc == InitConc /\ [][NextConc]_vars

\* ------------------------------------------------- repeated normalization
\* A caller that passes uris to the file based functions and passes the
\* path one call forwarded to the bridge as the uri of another call.
StripUris == {"file:///a.png", "/a.png", "file://file:///a.png", "/tmp/file://x.png"}

Restrip(c, d, op) ==
    /\ calls[d].pc # "idle"
    /\ Invoke(c, op, calls[d].bridge.uri)

NextStrip ==
    \/ \E c \in ConcCalls, op \in FileOps, uri \in StripUris : Invoke(c, op, uri)
    \/ \E c \in ConcCalls, d \in ConcCalls, op \in FileOps : Restrip(c, d, op)

SpecStrip == InitConc /\ [][NextStrip]_vars

\* ---------------------------------------------------------- example app
\* example/App.tsx: processImage(path?, base64?) as handleImagePick and
\* handleCameraCapture call it, one processImage at a time (the buttons are
\* disabled while isLoading).  The app reads the isSupported it imports; it
\* is checked for both values of that import.
AppPaths == {"", "file:///c.png", "/missing.png"}
AppBase64s == {NoPayload, Payload("clean", Image(200, 100)), Payload("padding", Garbage)}

\* A choice that takes the file based function whenever there is a path.
AppOperationPrefersPath(path, base64) ==
    IF path # "" THEN "extractTextFromImage" ELSE "extractTextFromImageData"

\* if (base64) { ... extractTextFromImageData } else if (path) { ... extractTextFromImage }
AppOperation(path, base64) ==
    IF base64 # NoPayload THEN "extractTextFromImageData" ELSE "extractTextFromImage"

\* setProcessingMethod('base64') / setProcessingMethod('file')
AppMethod(path, base64) == IF base64 # NoPayload THEN "base64" ELSE "file"

\* An app that does not look at isSupported.
AppSupportedAlways == TRUE

\* if (isSupported)
AppSupported == isSupported

\* processImage up to its await, or to its end when it does not extract.
AppProcessImage(path, base64) ==
    /\ app.pc \in {"ready", "finished"}
    /\ app.attempts < MaxCalls
    /\ LET c == app.attempts + 1
           started == [app EXCEPT !.attempts = c, !.path = path, !.base64 = base64,
                                  !.call = 0, !.extractions = 0]
           shown == [started EXCEPT !.imageUri = IF path # "" THEN path ELSE @,
                                    !.result = <<>>]
           op == AppOperation(path, base64)
       IN  IF path = "" /\ base64 = NoPayload THEN      \* if (!path && !base64) return
               /\ app' = [started EXCEPT !.pc = "finished"]
               /\ UNCHANGED calls
           ELSE IF AppSupported THEN
               /\ app' = [shown EXCEPT !.isLoading = TRUE,
                                       !.processingMethod = AppMethod(path, base64),
                                       !.call = c, !.extractions = 1,
                                       !.pc = "awaiting"]
               /\ calls' = [calls EXCEPT ![c] =
                       Bridged(@, op, IF op \in DataOps THEN base64 ELSE path)]
           ELSE
               /\ app' = [shown EXCEPT !.isLoading = FALSE,
                                       !.alerts = Append(@, "Not Supported"),
                                       !.pc = "finished"]
               /\ UNCHANGED calls
    /\ UNCHANGED <<platform, isSupported, errorCodes, conversion>>

\* A continuation whose catch leaves isLoading as it is.
AppAfterAwaitNoFinally(a, s) ==
    IF s.kind = "resolve"
    THEN [a EXCEPT !.result = s.value, !.isLoading = FALSE, !.pc = "finished"]
    ELSE [a EXCEPT !.alerts = Append(@, "Text Extraction Error"), !.pc = "finished"]

\* processImage after its await: setResult, or the catch (the bridge
\* rejects with Error objects), and the finally.
AppAfterAwait(a, s) ==
    IF s.kind = "resolve"
    THEN [a EXCEPT !.result = s.value, !.isLoading = FALSE, !.pc = "finished"]
    ELSE [a EXCEPT !.alerts = Append(@, "Text Extraction Error"),
                   !.isLoading = FALSE, !.pc = "finished"]

AppResume ==
    /\ app.pc = "awaiting"
    /\ calls[app.call].public # None
    /\ app' = AppAfterAwait(app, calls[app.call].public[1])
    /\ UNCHANGED <<platform, isSupported, errorCodes, calls, conversion>>

InitApp ==
    /\ platform \in Platforms
    /\ isSupported \in BOOLEAN
    /\ errorCodes = ExportedOCRErrorCode
    /\ calls = [c \in Calls |-> NewCall]
    /\ conversion = NoConversion
    /\ app = NewApp

NextApp ==
    \/ \E path \in AppPaths, base64 \in AppBase64s : AppProcessImage(path, base64)
    \/ AppResume
    \/ \E c \in Calls, hasContext \in BOOLEAN : AndroidFileBody(c, hasContext)
    \/ \E c \in Calls : AndroidDataBody(c)
    \/ \E c \in Calls, blocks \in ConcAndroidVendorResults : AndroidSuccess(c, blocks)
    \/ \E c \in Calls : AndroidFailure(c)
    \/ \E c \in Calls, v \in ConcIOSVendorOutcomes : IOSBody(c, v)

SpecApp == InitApp /\ [][NextApp]_vars

\* ------------------------------------------------------------ progress
\* The calls under the scheduling the platform gives: the runtime runs the
\* body of every AsyncFunction that was called, and the vendor SDK calls one
\* of the two listeners of every request it accepted.  The arguments cover
\* every exit of the handlers: a null context, a missing or undecodable
\* file, wrong base64, a null bitmap, missing results, a thrown error.
LiveInputs(op) ==
    IF op \in FileOps THEN ConcUris ELSE ConcPayloads \cup {Payload("clean", Garbage)}

NextLive ==
    \/ \E c \in Calls, op \in Ops : \E in \in LiveInputs(op) : Invoke(c, op, in)
    \/ \E c \in Calls, hasContext \in BOOLEAN : AndroidFileBody(c, hasContext)
    \/ \E c \in Calls : AndroidDataBody(c)
    \/ \E c \in Calls, blocks \in ConcAndroidVendorResults : AndroidSuccess(c, blocks)
    \/ \E c \in Calls : AndroidFailure(c)
    \/ \E c \in Calls, v \in ConcIOSVendorOutcomes : IOSBody(c, v)

Fairness ==
    \A c \in Calls :
        /\ WF_vars(\E hasContext \in BOOLEAN : AndroidFileBody(c, hasContext))
        /\ WF_vars(AndroidDataBody(c))
        /\ WF_vars(\E v \in ConcIOSVendorOutcomes : IOSBody(c, v))
        /\ WF_vars((\E blocks \in ConcAndroidVendorResults : AndroidSuccess(c, blocks))
                        \/ AndroidFailure(c))

SpecLive == Init /\ [][NextLive]_vars /\ Fairness

\* ------------------------------------------------ type unification layer
\* The layer is declared in types.unified.ts (OCROptions, PlatformConverters)
\* and types.android.ts (MLKitText...); its functions have no body in the
\* repository and are taken from the design.

\* An entity of a unified result, as far as the confidence filter sees it.
Entity(t, c) == [text |-> t, confidence |-> c]
Entities == {Entity("a", 95), Entity("b", 50), Entity("c", 99)}

\* OCROptions.minConfidence, in hundredths; None when it is not set.
MinConfidences == {None, Some(50), Some(90)}

AtLeast(threshold, e) == e.confidence >= threshold
Above(threshold, e) == e.confidence > threshold

\* A filter that also drops the entities exactly at the threshold.
ApplyMinConfidenceStrict(entities, minConfidence) ==
    IF minConfidence = None THEN entities
    ELSE LET Keep(e) == Above(minConfidence[1], e) IN SelectSeq(entities, Keep)

\* The post-filter over the unified result: drop the entities below the
\* threshold.
ApplyMinConfidence(entities, minConfidence) ==
    IF minConfidence = None THEN entities
    ELSE LET Keep(e) == AtLeast(minConfidence[1], e) IN SelectSeq(entities, Keep)

\* MLKitTextLine, MLKitTextBlock and MLKitTextResult, as far as the
\* converter's structure goes: a line's text and elements, a block's lines.
MLKitTextLine(t, es) == [text |-> t, elements |-> es]
MLKitTextBlock(ls) == [lines |-> ls]
MLKitTextResult(bs) == [textBlocks |-> bs]

MLKitLines == {MLKitTextLine("a", <<"a">>), MLKitTextLine("b c", <<"b", "c">>)}
MLKitBlocks == {MLKitTextBlock(ls) : ls \in SeqsUpTo(MLKitLines, MaxLines)}
MLKitResults == {MLKitTextResult(bs) : bs \in SeqsUpTo(MLKitBlocks, MaxBlocks)}

RECURSIVE JoinWith(_, _)
\* texts.join(separator)
JoinWith(texts, separator) ==
    IF texts = <<>> THEN ""
    ELSE IF Len(texts) = 1 THEN texts[1]
    ELSE texts[1] \o separator \o JoinWith(Tail(texts), separator)

\* Elements map to unified words, a line to a unified line.
ConvertLine(l) ==
    [text |-> l.text,
     words |-> [k \in 1..Len(l.elements) |-> [text |-> l.elements[k]]]]

\* A block whose text joins its lines with a space.
ConvertBlockSpaceJoined(b) ==
    [lines |-> [j \in 1..Len(b.lines) |-> ConvertLine(b.lines[j])],
     text |-> JoinWith([j \in 1..Len(b.lines) |-> b.lines[j].text], " ")]

\* A block maps to a unified block: its lines one to one in native order,
\* its text their texts joined by newline.
ConvertBlock(b) ==
    [lines |-> [j \in 1..Len(b.lines) |-> ConvertLine(b.lines[j])],
     text |-> JoinWith([j \in 1..Len(b.lines) |-> b.lines[j].text], "\n")]

\* PlatformConverters.fromAndroidMLKit
FromAndroidMLKit(result) ==
    [textBlocks |-> [i \in 1..Len(result.textBlocks) |-> ConvertBlock(result.textBlocks[i])],
     platform |-> "android"]

Conversion(f, in, o) == [NoConversion EXCEPT !.fn = f, !.input = in, !.option = o]

Conversions ==
    {Conversion("minConfidence", [NoInput EXCEPT !.entities = es], o) :
        es \in SeqsUpTo(Entities, MaxEntities), o \in MinConfidences}
    \cup {Conversion("fromAndroidMLKit", [NoInput EXCEPT !.textBlocks = r.textBlocks], None) :
        r \in MLKitResults}

InitConverters ==
    /\ platform \in Platforms
    /\ isSupported = TRUE
    /\ errorCodes = ExportedOCRErrorCode
    /\ calls = [c \in Calls |-> NewCall]
    /\ conversion \in Conversions
    /\ app = NewApp

FilterByMinConfidence ==
    /\ conversion.fn = "minConfidence"
    /\ ~conversion.done
    /\ conversion' = [conversion EXCEPT
            !.output.entities = ApplyMinConfidence(conversion.input.entities, conversion.option),
            !.done = TRUE]
    /\ UNCHANGED <<platform, isSupported, errorCodes, calls, app>>

ConvertAndroidResult ==
    /\ conversion.fn = "fromAndroidMLKit"
    /\ ~conversion.done
    /\ conversion' = [conversion EXCEPT
            !.output = [NoOutput EXCEPT
                !.textBlocks = FromAndroidMLKit(conversion.input).textBlocks,
                !.platform = FromAndroidMLKit(conversion.input).platform],
            !.done = TRUE]
    /\ UNCHANGED <<platform, isSupported, errorCodes, calls, app>>

NextConverters == FilterByMinConfidence \/ ConvertAndroidResult

SpecConverters == InitConverters /\ [][NextConverters]_vars

\* ================================================================ claims
Settled(c) == calls[c].settlements # <<>>
Outcome(c) == calls[c].settlements[1]

\* C1: every call settles its promise exactly once: once a resolve or a
\* reject has been issued for a call, no second one is issued for it.
C1_SettlesOnce == \A c \in Calls : Len(calls[c].settlements) <= 1

\* The prefix strip the public surface is described to perform.
StripPrefix(uri) ==
    IF StartsWith(uri, "file://") THEN SubSeq(uri, Len("file://") + 1, Len(uri)) ELSE uri

\* C2: the file based operations hand the bridge the uri without its leading
\* file:// when it starts with file://, and the uri unchanged otherwise.
C2_StripsOnlyPrefix ==
    \A c \in Calls :
        (calls[c].pc # "idle" /\ calls[c].op \in FileOps)
            => calls[c].bridge.uri = StripPrefix(calls[c].input.uri)

\* A uri that names a file the device does not hold.
NonExistentPath(uri) ==
    /\ ~StartsWith(uri, "content://")
    /\ FileContents(StripPrefix(uri)).kind = "missing"

\* C3: a file based operation on a non-existent path rejects with
\* INVALID_IMAGE, and the native recognizer is never invoked for the call.
C3_MissingFileInvalidImage ==
    \A c \in Calls :
        (calls[c].pc = "done" /\ calls[c].op \in FileOps
            /\ NonExistentPath(calls[c].input.uri))
            => /\ Phase(c) = "rejected"
               /\ Outcome(c).code = "INVALID_IMAGE"
               /\ calls[c].vendorCalls = 0

\* C4: a base64 based operation rejects a payload that is not valid base64
\* with INVALID_BASE64 and a payload whose bytes are not an image with
\* INVALID_IMAGE, never invokes the recognizer for it and never resolves.
C4_BadPayloadRejected ==
    \A c \in Calls :
        (calls[c].pc = "done" /\ calls[c].op \in DataOps)
            => LET p == calls[c].input.payload
               IN  /\ p.form # "clean"
                        => /\ Phase(c) = "rejected"
                           /\ Outcome(c).code = "INVALID_BASE64"
                           /\ calls[c].vendorCalls = 0
                   /\ (p.form = "clean" /\ p.bytes.kind # "image")
                        => /\ Phase(c) = "rejected"
                           /\ Outcome(c).code = "INVALID_IMAGE"
                           /\ calls[c].vendorCalls = 0

\* C5: every rejection carries a code of the closed error taxonomy.
C5_ClosedErrorCodes ==
    \A c \in Calls :
        \A i \in 1..Len(calls[c].settlements) :
            calls[c].settlements[i].kind = "reject"
                => calls[c].settlements[i].code \in OCRErrorCode

\* C6: a call whose vendor recognition step reported a failure ends
\* rejected, never resolved.
C6_VendorFailureRejects ==
    \A c \in Calls :
        calls[c].vendor.outcome = "failure" => Phase(c) = "rejected"

IsNumber(v) == v # None

\* C7: every entry of every resolved result of the detail operations has a
\* boundingBox whose x, y, width and height are all numbers.
C7_BoundingBoxComplete ==
    \A c \in Calls :
        (Phase(c) = "resolved" /\ calls[c].op \in DetailOps)
            => \A i \in 1..Len(Outcome(c).value) :
                   LET bb == Outcome(c).value[i].boundingBox
                   IN  /\ IsNumber(bb.x) /\ IsNumber(bb.y)
                       /\ IsNumber(bb.width) /\ IsNumber(bb.height)

\* The iOS observations that have a recognition candidate, by position.
KeptIndices(obs) == {i \in 1..Len(obs) : obs[i].candidates # <<>>}
Rank(K, i) == Cardinality({j \in K : j <= i})

\* A resolved iOS detail call whose result came from the observations.
IOSDetailResolved(c) ==
    /\ platform = "ios"
    /\ calls[c].op \in DetailOps
    /\ calls[c].vendor.outcome = "success"
    /\ Phase(c) = "resolved"

\* C8: on iOS both detail operations emit, for an observation with
\* normalized box (x, y, w, h) on an image of size (W, H), the pixel box
\* x' = x*W, y' = (1 - y - h)*H, w' = w*W, h' = h*H.
C8_IOSPixelBox ==
    \A c \in Calls :
        IOSDetailResolved(c)
            => LET obs == calls[c].vendor.regions
                   K == KeptIndices(obs)
                   W == calls[c].image.width
                   H == calls[c].image.height
               IN  /\ Len(Outcome(c).value) = Cardinality(K)
                   /\ \A i \in K :
                        LET out == Outcome(c).value[Rank(K, i)].boundingBox
                            n == obs[i].boundingBox
                        IN  /\ out.x = Some((n.x * W) \div One)
                            /\ out.y = Some(((One - n.y - n.height) * H) \div One)
                            /\ out.width = Some((n.width * W) \div One)
                            /\ out.height = Some((n.height * H) \div One)

\* The base64 based iOS detail operation has resolved two entries whose
\* boxes lie at different heights.
C8_Witness ==
    \E c \in Calls :
        /\ IOSDetailResolved(c)
        /\ calls[c].op = "extractTextFromImageDataWithDetails"
        /\ Len(Outcome(c).value) = 2
        /\ Outcome(c).value[1].boundingBox.y # Outcome(c).value[2].boundingBox.y

\* The rect {x: 0.25, y: 0.25, width: 0.5, height: 0.5} on a 200 x 100 image.
QuarterRect == CGRect(One \div 4, One \div 4, One \div 2, One \div 2)
IsExampleCase(c, i) ==
    /\ IOSDetailResolved(c)
    /\ calls[c].image = Image(200, 100)
    /\ i \in KeptIndices(calls[c].vendor.regions)
    /\ calls[c].vendor.regions[i].boundingBox = QuarterRect
ExampleBox(c, i) ==
    Outcome(c).value[Rank(KeptIndices(calls[c].vendor.regions), i)].boundingBox

\* C9 as stated: the example rect yields {x: 50, y: 0, width: 100, height: 50}.
C9_ExampleAsStated ==
    \A c \in Calls : \A i \in 1..MaxObs :
        IsExampleCase(c, i)
            => ExampleBox(c, i) =
                 [x |-> Some(50), y |-> Some(0), width |-> Some(100), height |-> Some(50)]

\* C9, amended: the example rect yields {x: 50, y: 25, width: 100, height: 50}.
C9_ExampleAmended ==
    \A c \in Calls : \A i \in 1..MaxObs :
        IsExampleCase(c, i)
            => ExampleBox(c, i) =
                 [x |-> Some(50), y |-> Some(25), width |-> Some(100), height |-> Some(50)]

\* The example rect has been converted by the file based detail operation.
C9_Witness ==
    \E c \in Calls : \E i \in 1..MaxObs :
        /\ IsExampleCase(c, i)
        /\ calls[c].op = "extractTextFromImageWithDetails"

\* A resolved extractTextFromImage whose result came from the vendor's regions.
SimpleResolved(c) ==
    /\ calls[c].op = "extractTextFromImage"
    /\ calls[c].vendor.outcome = "success"
    /\ Phase(c) = "resolved"

\* C10 as stated: the result of extractTextFromImage has one entry per
\* region the vendor detected, in the vendor's order.
C10_OnePerRegion ==
    \A c \in Calls :
        SimpleResolved(c)
            => LET rs == calls[c].vendor.regions
               IN  /\ Len(Outcome(c).value) = Len(rs)
                   /\ \A i \in 1..Len(rs) :
                        Outcome(c).value[i] =
                            IF platform = "android" THEN rs[i].text
                            ELSE rs[i].candidates[1].string

\* C10, amended: the result of extractTextFromImage has one entry per
\* Android text block, and one per iOS observation that has a candidate, in
\* the vendor's order, none of those dropped, duplicated or reordered.
C10_OnePerRecognizedRegion ==
    \A c \in Calls :
        SimpleResolved(c)
            => LET rs == calls[c].vendor.regions
                   K == IF platform = "android" THEN 1..Len(rs) ELSE KeptIndices(rs)
               IN  /\ Len(Outcome(c).value) = Cardinality(K)
                   /\ \A i \in K :
                        Outcome(c).value[Rank(K, i)] =
                            IF platform = "android" THEN rs[i].text
                            ELSE rs[i].candidates[1].string

\* extractTextFromImage has resolved two regions with different texts.
C10_Witness ==
    \E c \in Calls :
        /\ SimpleResolved(c)
        /\ Len(Outcome(c).value) = 2
        /\ Outcome(c).value[1] # Outcome(c).value[2]

\* A resolved Android detail call whose result came from the text blocks.
AndroidDetailAnswered(c) ==
    /\ platform = "android"
    /\ calls[c].op \in DetailOps
    /\ calls[c].vendor.outcome = "success"

\* C11: on Android both detail operations give an entry the text block's
\* confidence when there is one and exactly 0.5 when there is none; a missing
\* confidence neither rejects the call nor drops the entry.
C11_ConfidenceFallback ==
    \A c \in Calls :
        AndroidDetailAnswered(c)
            => LET rs == calls[c].vendor.regions
               IN  /\ Phase(c) = "resolved"
                   /\ Len(Outcome(c).value) = Len(rs)
                   /\ \A i \in 1..Len(rs) :
                        Outcome(c).value[i].confidence =
                            IF rs[i].confidence = None THEN 50 ELSE rs[i].confidence[1]

\* An Android detail call has resolved a block without confidence next to
\* one with a confidence.
C11_Witness ==
    \E c \in Calls :
        /\ AndroidDetailAnswered(c)
        /\ Len(calls[c].vendor.regions) = 2
        /\ calls[c].vendor.regions[1].confidence = None
        /\ calls[c].vendor.regions[2].confidence # None

\* C12: isSupported is a boolean that no step of the program changes.
C12_IsSupportedFixed ==
    /\ [](isSupported \in BOOLEAN)
    /\ [][isSupported' = isSupported]_vars

\* Extract operations have been called and one has failed.
C12_Witness ==
    \E c \in Calls : Phase(c) = "rejected" /\ isSupported \in BOOLEAN

\* C13: a call issues at most one bridge call and at most one recognition
\* request; a request that failed is not issued again.
C13_AtMostOneRequest ==
    \A c \in Calls :
        /\ calls[c].bridgeCalls <= 1
        /\ calls[c].vendorCalls <= 1
        /\ calls[c].vendor.outcome \in {"failure", "throws"}
             => (calls[c].vendorCalls = 1 /\ calls[c].pc = "done")

\* A recognition request has failed.
C13_Witness ==
    \E c \in Calls :
        /\ calls[c].vendor.outcome \in {"failure", "throws"}
        /\ calls[c].bridgeCalls = 1

\* C15: no call ends with its decoded image buffer still held.
C15_BufferReleased ==
    \A c \in Calls : calls[c].pc = "done" => calls[c].buffer # "held"

\* C16: no rejection carries TIMEOUT, and a call leaves the in-flight state
\* only with an answer of the vendor or, before any request was made, with
\* the rejection of a synchronous failure.
C16_NoTimeout ==
    /\ [](\A c \in Calls : \A i \in 1..Len(calls[c].settlements) :
            calls[c].settlements[i].code # "TIMEOUT")
    /\ [][\A c \in Calls :
            (Phase(c) = "in-flight" /\ Phase(c)' # "in-flight")
                => \/ calls'[c].vendor.outcome # "none"
                   \/ /\ calls'[c].vendorCalls = 0
                      /\ Phase(c)' = "rejected"]_vars

\* A pending recognition request has been answered and the call resolved.
C16_Witness ==
    \E c \in Calls :
        /\ Phase(c) = "resolved"
        /\ calls[c].vendor.outcome = "success"
        /\ calls[c].vendorCalls = 1

\* C17: the exported OCRErrorCode has exactly the nine kinds and is the
\* OCRErrorCode of the unified types.
C17_ExportedTaxonomy ==
    /\ errorCodes =
         {"INVALID_IMAGE", "INVALID_BASE64", "PROCESSING_FAILED", "TIMEOUT",
          "UNSUPPORTED_FORMAT", "NETWORK_ERROR", "MODEL_NOT_AVAILABLE",
          "PERMISSION_DENIED", "UNKNOWN_ERROR"}
    /\ errorCodes = OCRErrorCode

\* The image behind a call's argument.
SourceImage(c) ==
    IF calls[c].op \in FileOps THEN FileContents(calls[c].bridge.uri)
    ELSE calls[c].input.payload.bytes

HasZeroDimension(img) == img.kind # "missing" /\ (img.width = 0 \/ img.height = 0)

\* A detail call, finished, on an image with a zero dimension.
ZeroSizeDetailDone(c) ==
    /\ calls[c].pc = "done"
    /\ calls[c].op \in DetailOps
    /\ SourceImage(c).kind = "zero"
    /\ HasZeroDimension(SourceImage(c))

Filtered == conversion.fn = "minConfidence" /\ conversion.done /\ conversion.option # None

\* C18: with minConfidence set, the result holds exactly the entities whose
\* confidence is at least minConfidence, in their original order; 0.9 over
\* confidences 0.95, 0.5, 0.99 keeps the first and the third.
C18_MinConfidenceFilter ==
    Filtered
        => LET in == conversion.input.entities
               out == conversion.output.entities
               K == {i \in 1..Len(in) : in[i].confidence >= conversion.option[1]}
           IN  /\ Len(out) = Cardinality(K)
               /\ \A i \in K : out[Rank(K, i)] = in[i]
               /\ ([i \in 1..Len(in) |-> in[i].confidence] = <<95, 50, 99>>
                      /\ conversion.option = Some(90))
                    => out = <<in[1], in[3]>>

\* The example has been filtered.
C18_Witness ==
    /\ Filtered
    /\ conversion.option = Some(90)
    /\ Len(conversion.input.entities) = 3
    /\ [i \in 1..3 |-> conversion.input.entities[i].confidence] = <<95, 50, 99>>
    /\ Len(conversion.output.entities) = 2

Converted == conversion.fn = "fromAndroidMLKit" /\ conversion.done

\* The texts of unified lines, each but the last followed by a newline.
NewlineJoined(lines) ==
    LET f[n \in 0..Len(lines)] ==
            IF n = 0 THEN ""
            ELSE IF n = 1 THEN lines[1].text
            ELSE f[n - 1] \o "\n" \o lines[n].text
    IN  f[Len(lines)]

\* C19: the converter maps blocks and lines one to one in native order, and
\* a unified block's text is its line texts joined by newline.
C19_AndroidBlocksAndLines ==
    Converted
        => LET in == conversion.input.textBlocks
               out == conversion.output.textBlocks
           IN  /\ Len(out) = Len(in)
               /\ \A i \in 1..Len(in) :
                    /\ Len(out[i].lines) = Len(in[i].lines)
                    /\ \A j \in 1..Len(in[i].lines) :
                         out[i].lines[j].text = in[i].lines[j].text
                    /\ out[i].text = NewlineJoined(out[i].lines)

\* A block of two different lines has been converted.
C19_Witness ==
    /\ Converted
    /\ \E i \in 1..Len(conversion.input.textBlocks) :
         LET ls == conversion.input.textBlocks[i].lines
         IN  Len(ls) = 2 /\ ls[1] # ls[2]

\* A step of call c: its invocation, its native body or its listener.
CallStep(c) ==
    \/ \E op \in Ops : \E in \in ConcInputs(op) : Invoke(c, op, in)
    \/ \E hasContext \in BOOLEAN : AndroidFileBody(c, hasContext)
    \/ AndroidDataBody(c)
    \/ \E blocks \in ConcAndroidVendorResults : AndroidSuccess(c, blocks)
    \/ AndroidFailure(c)
    \/ \E v \in ConcIOSVendorOutcomes : IOSBody(c, v)

\* What a call's outcome may depend on: its operation, its argument, the
\* image it decoded and the answer of its own recognizer.
OwnInput(c) == <<calls[c].op, calls[c].input, calls[c].image, calls[c].vendor>>

\* C14: concurrent calls are independent: a call's outcome is determined by
\* its own input and its own vendor result, whatever the other calls do; a
\* call that is not finished can take its next step in every state the
\* others are in; and a step of one call leaves every other call as it was.
C14_CallsIndependent ==
    /\ [](\A c \in ConcCalls, d \in ConcCalls :
            (calls[c].pc = "done" /\ calls[d].pc = "done" /\ OwnInput(c) = OwnInput(d))
                => calls[c].settlements = calls[d].settlements)
    /\ [](\A c \in ConcCalls : calls[c].pc # "done" => ENABLED CallStep(c))
    /\ [][\A c \in ConcCalls, d \in ConcCalls :
            (c # d /\ calls'[c] # calls[c]) => calls'[d] = calls[d]]_vars

\* One call has resolved while another one still waits for its recognizer.
C14_Witness ==
    \E c \in ConcCalls, d \in ConcCalls :
        /\ c # d
        /\ Phase(c) = "resolved"
        /\ calls[d].pc = "processing"

\* C21: the public surface is a pass-through apart from the file:// strip:
\* the base64 operations hand their argument to the bridge unchanged, the
\* file operations hand over the stripped uri, and for all four operations
\* the public promise settles exactly as the bridge's promise did (pending
\* while that one is pending).
C21_PassThrough ==
    \A c \in Calls :
        calls[c].pc # "idle"
            => /\ calls[c].op \in DataOps => calls[c].bridge = calls[c].input
               /\ calls[c].op \in FileOps
                    => calls[c].bridge = Arg(ProcessedUri(calls[c].input.uri), NoPayload)
               /\ calls[c].bridgeCalls = 1
               /\ IF calls[c].settlements = <<>> THEN calls[c].public = None
                  ELSE calls[c].public = Some(calls[c].settlements[1])

\* A base64 call that is not canonical base64 has been forwarded and has
\* settled.
C21_Witness ==
    \E c \in Calls :
        /\ calls[c].op \in DataOps
        /\ calls[c].input.payload.form # "clean"
        /\ calls[c].public # None

\* A resolved iOS call whose result came from the observations.
IOSAnswered(c) ==
    /\ platform = "ios"
    /\ calls[c].vendor.outcome = "success"
    /\ Phase(c) = "resolved"

\* The text of an entry of a result: the entry itself for the simple
\* operations, its text field for the detailed ones.
TextOf(op, entry) == IF op \in DetailOps THEN entry.text ELSE entry

\* C22: on iOS an observation with no recognition candidate is omitted and
\* every other observation appears once, in native order, with its top
\* candidate's string; this is so for each of the four operations, so all
\* four omit the same observations.
C22_IOSOmitsCandidateless ==
    \A c \in Calls :
        IOSAnswered(c)
            => LET obs == calls[c].vendor.regions
                   K == KeptIndices(obs)
                   out == Outcome(c).value
               IN  /\ Len(out) = Cardinality(K)
                   /\ \A i \in K :
                        TextOf(calls[c].op, out[Rank(K, i)]) = obs[i].candidates[1].string

\* A base64 based detailed iOS call has resolved observations of which the
\* first has no candidate and the second has one.
C22_Witness ==
    \E c \in Calls :
        /\ IOSAnswered(c)
        /\ calls[c].op = "extractTextFromImageDataWithDetails"
        /\ Len(calls[c].vendor.regions) = 2
        /\ calls[c].vendor.regions[1].candidates = <<>>
        /\ Len(Outcome(c).value) = 1

\* The detailed operation that takes the same kind of argument.
Detailed(op) ==
    IF op \in FileOps THEN "extractTextFromImageWithDetails"
    ELSE "extractTextFromImageDataWithDetails"

\* Call c is a simple operation and call d its detailed counterpart, on
\* the same argument, the same image and the same answer of the vendor.
Counterparts(c, d) ==
    /\ calls[c].pc = "done" /\ calls[d].pc = "done"
    /\ calls[c].op \notin DetailOps
    /\ calls[d].op = Detailed(calls[c].op)
    /\ calls[c].input = calls[d].input
    /\ calls[c].image = calls[d].image
    /\ calls[c].vendor = calls[d].vendor

C24_SameRejectionCode ==
    \A c \in ConcCalls, d \in ConcCalls :
        (Counterparts(c, d) /\ Phase(c) = "rejected" /\ Phase(d) = "rejected")
            => Outcome(c).code = Outcome(d).code

\* An Android file based call whose body has run.
AndroidFileBodyRan(c) ==
    /\ platform = "android"
    /\ calls[c].op \in FileOps
    /\ calls[c].pc \in {"processing", "done"}

\* C25: on Android the file based operations check existence only for
\* inputs that do not start with content://.  An input of another form
\* whose file does not exist is rejected with no InputImage made and no
\* recognizer.process call; a content:// input that reaches the recognizer
\* carries the image the content resolver gave, whatever File says of it.
C25_ExistenceCheck ==
    \A c \in Calls :
        AndroidFileBodyRan(c)
            => LET uri == calls[c].bridge.uri
               IN  /\ (~StartsWith(uri, "content://") /\ FileContents(uri).kind = "missing")
                        => /\ Phase(c) = "rejected"
                           /\ calls[c].image = Missing
                           /\ calls[c].vendorCalls = 0
                   /\ (StartsWith(uri, "content://") /\ calls[c].vendorCalls > 0)
                        => calls[c].image = ContentContents(uri)

\* A content:// input, for which File.exists is false, is with the
\* recognizer.
C25_Witness ==
    \E c \in Calls :
        /\ AndroidFileBodyRan(c)
        /\ StartsWith(calls[c].bridge.uri, "content://")
        /\ FileContents(calls[c].bridge.uri).kind = "missing"
        /\ calls[c].pc = "processing"

\* C26: every invocation of an extract operation eventually settles, the
\* vendor answering every request it accepted: no path through the handlers
\* leaves the promise pending forever.
C26_EventuallySettles ==
    \A c \in Calls : (calls[c].pc # "idle") ~> Settled(c)

\* The Android null bitmap path has ended in a rejection.
C26_Witness ==
    \E c \in Calls :
        /\ platform = "android"
        /\ calls[c].op \in DataOps
        /\ Phase(c) = "rejected"
        /\ Outcome(c).code = "INVALID_IMAGE"

\* Call d was given, as its uri, the path call c forwarded to the bridge.
Restripped(c, d) ==
    /\ calls[c].pc # "idle" /\ calls[d].pc # "idle"
    /\ calls[c].op \in FileOps /\ calls[d].op \in FileOps
    /\ calls[d].input.uri = calls[c].bridge.uri

\* C27 as stated: the normalization is idempotent: the path forwarded for an
\* already stripped uri is that uri, for every uri.
C27_StripIdempotent ==
    \A c \in ConcCalls, d \in ConcCalls :
        Restripped(c, d) => calls[d].bridge.uri = calls[c].bridge.uri

\* C27, amended: the normalization removes the first file:// only; it is
\* idempotent on every uri whose stripped form holds no file:// (so on
\* file:///a.png and /tmp/file://x.png), and on file://file:///a.png a
\* second application strips again.
C27_StripIdempotentOnce ==
    \A c \in ConcCalls, d \in ConcCalls :
        Restripped(c, d)
            => LET uri == calls[c].input.uri
                   once == calls[c].bridge.uri
                   twice == calls[d].bridge.uri
               IN  /\ IndexOf(once, "file://") = 0 => twice = once
                   /\ uri = "file:///a.png" => (once = "/a.png" /\ twice = "/a.png")
                   /\ uri = "/tmp/file://x.png" => (once = "/tmp/x.png" /\ twice = "/tmp/x.png")
                   /\ uri = "file://file:///a.png"
                        => (once = "file:///a.png" /\ twice = "/a.png")

\* The path forwarded for file:///a.png has been passed to a second call.
C27_Witness ==
    \E c \in ConcCalls, d \in ConcCalls :
        /\ c # d
        /\ Restripped(c, d)
        /\ calls[c].input.uri = "file:///a.png"

\* C28: in the example app isLoading is false whenever processImage has
\* finished, on every path: the extraction resolved or rejected,
\* isSupported false, neither a path nor a base64 given.
C28_LoadingReset == app.pc = "finished" => ~app.isLoading

\* processImage has finished after its extraction was rejected.
C28_Witness ==
    /\ app.pc = "finished"
    /\ app.call # 0
    /\ Phase(app.call) = "rejected"
    /\ app.alerts # <<>>

\* The value the displayed result must have: that of the call once it has
\* resolved and processImage has gone on, empty before and on a rejection.
AppExpectedResult ==
    IF app.pc = "finished" /\ Phase(app.call) = "resolved"
    THEN Outcome(app.call).value ELSE <<>>

\* The extraction call of the current processImage is the one its inputs
\* select, and the result shown is that call's.
AppCallChosenByInput ==
    /\ app.extractions = 1
    /\ app.call = app.attempts
    /\ calls[app.call].bridgeCalls = 1
    /\ app.base64 # NoPayload
         => /\ calls[app.call].op = "extractTextFromImageData"
            /\ calls[app.call].input = Arg("", app.base64)
            /\ app.processingMethod = "base64"
    /\ app.base64 = NoPayload
         => /\ calls[app.call].op = "extractTextFromImage"
            /\ calls[app.call].input = Arg(app.path, NoPayload)
            /\ app.processingMethod = "file"
    /\ app.result = AppExpectedResult
    /\ \A c \in Calls : c > app.attempts => calls[c].pc = "idle"

\* C29 as stated: every processImage makes exactly one extraction call,
\* chosen by its inputs, and shows only that call's value.
C29_OneCallPerInvocation ==
    app.pc \in {"awaiting", "finished"} => AppCallChosenByInput

\* C29, amended: when isSupported is true and a path or a base64 is given,
\* processImage makes exactly one extraction call, extractTextFromImageData
\* (method 'base64') when base64 is present, also with a path, and
\* extractTextFromImage (method 'file') when only a path is; the result
\* shown is replaced only by that call's value and is empty when it
\* rejects.  Otherwise processImage makes no extraction call.
C29_OneCallWhenSupported ==
    app.pc \in {"awaiting", "finished"}
        => IF isSupported /\ (app.path # "" \/ app.base64 # NoPayload)
           THEN AppCallChosenByInput
           ELSE /\ app.extractions = 0
                /\ app.call = 0
                /\ \A c \in Calls : c >= app.attempts => calls[c].pc = "idle"

\* processImage was given a path and a base64 and shows the one text that
\* its base64 call resolved with.
C29_Witness ==
    /\ app.pc = "finished"
    /\ app.path # "" /\ app.base64 # NoPayload
    /\ app.call # 0
    /\ Phase(app.call) = "resolved"
    /\ Len(app.result) = 1

\* With isSupported false, no call was made and nothing is shown.
AppNothingExtracted ==
    /\ \A c \in Calls : calls[c].pc = "idle"
    /\ app.extractions = 0
    /\ ~app.isLoading
    /\ app.result = <<>>

\* C30 as stated: with isSupported false, for every combination of path and
\* base64, processImage calls no extraction operation and ends with
\* isLoading false, an empty result and a 'Not Supported' alert.
C30_UnsupportedNoCall ==
    (~isSupported /\ app.pc = "finished")
        => /\ AppNothingExtracted
           /\ Len(app.alerts) = app.attempts
           /\ \A i \in 1..Len(app.alerts) : app.alerts[i] = "Not Supported"

\* C30, amended: with isSupported false no extraction operation is ever
\* called and processImage ends with isLoading false and an empty result;
\* it shows the 'Not Supported' alert when a path or a base64 was given, and
\* returns without an alert when neither was.
C30_UnsupportedNoCallGivenInput ==
    (~isSupported /\ app.pc = "finished")
        => /\ AppNothingExtracted
           /\ Len(app.alerts) <= app.attempts
           /\ \A i \in 1..Len(app.alerts) : app.alerts[i] = "Not Supported"
           /\ (app.path # "" \/ app.base64 # NoPayload) => app.alerts # <<>>
           /\ (app.path = "" /\ app.base64 = NoPayload /\ app.attempts = 1)
                => app.alerts = <<>>

\* With isSupported false, processImage was given a path and a base64 and
\* ended with the alert.
C30_Witness ==
    /\ ~isSupported
    /\ app.pc = "finished"
    /\ app.path # "" /\ app.base64 # NoPayload
    /\ app.alerts # <<>>

====
